---- MODULE Spec2Model ----
(***************************************************************************)
(* The pipeline driver go() of src/main.py: it sets two environment       *)
(* variables, resolves main.execute_steps into steps_to_execute and then   *)
(* walks six `if "<stage>" in steps_to_execute: mlflow.run(...)` blocks.   *)
(*                                                                         *)
(* Text values of the configuration and of the parameters are TLA+         *)
(* strings.  The value of main.execute_steps is text that the code takes   *)
(* apart, so it is kept as a sequence of lexemes: the comma ",", the blank *)
(* " ", or a word (a maximal run of other characters).  The Python string  *)
(* "download" is <<"download">>, "a, b" is <<"a", ",", " ", "b">> and the  *)
(* empty string is <<>>.                                                   *)
(***************************************************************************)
EXTENDS Integers, Sequences, FiniteSets, TLC

VARIABLES
    names,             \* the step names the user means, in the order given
    form,              \* how they reach the program: absent, sequence, or one of two strings
    config,            \* the DictConfig handed to go()
    environ,           \* os.environ
    root_path,         \* hydra.utils.get_original_cwd()
    steps_to_execute,  \* the list built at lines 25-29
    pc,                \* the statement go() executes next
    running,           \* the stages whose mlflow.run call has started and not returned
    invoked,           \* the mlflow.run calls made so far, in order
    model_config,      \* the path computed at line 111
    fp,                \* the file object of the with block at line 113
    disk,              \* the files of the working directory, as a reader sees them
    failed,            \* the stages whose mlflow.run call signalled failure
    error              \* the exception that left go(), or "none"

vars == <<names, form, config, environ, root_path, steps_to_execute, pc,
          running, invoked, model_config, fp, disk, failed, error>>

(***************************************************************************)
(* Bounds of the model.                                                    *)
(***************************************************************************)
MaxLen == 2        \* longest list of step names given by the user
MaxMissing == 1    \* most keys or sections absent from the configuration

(***************************************************************************)
(* The six stages in the order of the if blocks, lines 32-146.             *)
(***************************************************************************)
StageNames ==
    <<"download", "preprocess", "check_data", "segregate", "random_forest", "evaluate">>

Stages == {StageNames[i] : i \in 1..Len(StageNames)}

\* a name that is none of the six
UnknownWord == "train"

StepWords == Stages \cup {UnknownWord}

Comma == ","
Blank == " "

\* strip(): the blanks at both ends removed
RECURSIVE Trim(_)
Trim(s) ==
    IF s = <<>> THEN s
    ELSE IF Head(s) = Blank THEN Trim(Tail(s))
    ELSE IF s[Len(s)] = Blank THEN Trim(SubSeq(s, 1, Len(s) - 1))
    ELSE s

\* a variant of Split: [x.strip() for x in s.split(",")]
RECURSIVE SplitTrimmed(_)
SplitTrimmed(s) ==
    IF \A i \in 1..Len(s) : s[i] # Comma
    THEN <<Trim(s)>>
    ELSE LET i == CHOOSE i \in 1..Len(s) : s[i] = Comma /\ \A j \in 1..(i - 1) : s[j] # Comma
         IN  <<Trim(SubSeq(s, 1, i - 1))>> \o SplitTrimmed(SubSeq(s, i + 1, Len(s)))

(***************************************************************************)
(* str.split(","), line 27: the pieces between the commas, nothing removed *)
(* from them; a text without a comma is its own single piece.              *)
(***************************************************************************)
RECURSIVE Split(_)
Split(s) ==
    IF \A i \in 1..Len(s) : s[i] # Comma
    THEN <<s>>
    ELSE LET i == CHOOSE i \in 1..Len(s) : s[i] = Comma /\ \A j \in 1..(i - 1) : s[j] # Comma
         IN  <<SubSeq(s, 1, i - 1)>> \o Split(SubSeq(s, i + 1, Len(s)))

(***************************************************************************)
(* The ways a user writes a list of step names as main.execute_steps.      *)
(***************************************************************************)
RECURSIVE Join(_, _)
Join(l, sep) ==
    IF Len(l) = 0 THEN <<>>
    ELSE IF Len(l) = 1 THEN <<l[1]>>
    ELSE <<l[1]>> \o sep \o Join(Tail(l), sep)

AsSequence(l) == [type |-> "list", value |-> [i \in 1..Len(l) |-> <<l[i]>>]]

AsString(l, sep) == [type |-> "str", value |-> Join(l, sep)]

Forms == {"absent", "sequence", "commas", "commas_blanks"}

\* the value of main.execute_steps in config.yaml: all six stages
DefaultSteps == AsSequence(StageNames)

ExecuteSteps(l, f) ==
    CASE f = "absent"        -> DefaultSteps
      [] f = "sequence"      -> AsSequence(l)
      [] f = "commas"        -> AsString(l, <<Comma>>)
      [] f = "commas_blanks" -> AsString(l, <<Comma, Blank>>)

(***************************************************************************)
(* Configurations.  A key or section that is absent is not in the DOMAIN   *)
(* of its mapping, and reading it raises.                                  *)
(***************************************************************************)
ConfigA ==
    [main |-> [project_name |-> "genre_classification", experiment_name |-> "dev",
               random_seed |-> "42"],
     data |-> [file_url |-> "http://x/y.csv",
               reference_dataset |-> "genre_classification/preprocessed_data.csv:latest",
               ks_alpha |-> "0.05", test_size |-> "0.3", stratify |-> "genre"],
     random_forest_pipeline |-> [export_artifact |-> "model_export",
                                 random_forest |-> "n_estimators: 100"]]

ConfigB ==
    [main |-> [project_name |-> "exercise_14", experiment_name |-> "prod",
               random_seed |-> "7"],
     data |-> [file_url |-> "http://z/genres.parquet",
               reference_dataset |-> "exercise_14/reference.csv:v1",
               ks_alpha |-> "0.01", test_size |-> "0.2", stratify |-> "artist"],
     random_forest_pipeline |-> [export_artifact |-> "rf_export",
                                 random_forest |-> "n_estimators: 10"]]

Configurations == {ConfigA, ConfigB}

\* what may be absent: a section <<s>> or a key <<s, k>>
Removable ==
    {<<"data">>, <<"random_forest_pipeline">>}
    \cup {<<"main", k>> : k \in {"project_name", "experiment_name", "random_seed"}}
    \cup {<<"data", k>> : k \in {"file_url", "reference_dataset", "ks_alpha", "test_size", "stratify"}}
    \cup {<<"random_forest_pipeline", "export_artifact">>}

Without(tree, missing) ==
    [s \in {x \in DOMAIN tree : <<x>> \notin missing} |->
        [k \in {y \in DOMAIN tree[s] : <<s, y>> \notin missing} |-> tree[s][k]]]

\* the configuration hydra composes from config.yaml and the command line, line 8
Compose(tree, missing, l, f) ==
    LET t == Without(tree, missing)
    IN  [s \in DOMAIN t |->
            IF s = "main"
            THEN [k \in DOMAIN t[s] \cup {"execute_steps"} |->
                    IF k = "execute_steps" THEN ExecuteSteps(l, f) ELSE t[s][k]]
            ELSE t[s]]

\* config[section][key] succeeds
Has(section, key) == section \in DOMAIN config /\ key \in DOMAIN config[section]

HasAll(section, keys) == \A k \in keys : Has(section, k)

RECURSIVE ListsUpTo(_, _)
ListsUpTo(S, n) ==
    IF n = 0 THEN {<<>>}
    ELSE LET shorter == ListsUpTo(S, n - 1)
         IN  shorter \cup {Append(l, x) : l \in shorter, x \in S}

\* the directory the command was started in, and the run directory hydra changes to
OriginalCwd == "/project"
Cwd == "/project/outputs/run"

NoFile == [state |-> "absent", text |-> ""]

Init ==
    /\ form \in Forms
    /\ names \in IF form = "absent" THEN {StageNames} ELSE ListsUpTo(StepWords, MaxLen)
    /\ \E tree \in Configurations :
       \E missing \in {m \in SUBSET Removable : Cardinality(m) <= MaxMissing} :
          config = Compose(tree, missing, names, form)
    /\ environ = [WANDB_PROJECT |-> "unset", WANDB_RUN_GROUP |-> "unset"]
    /\ root_path = "unset"
    /\ steps_to_execute = <<>>
    /\ pc = "project"
    /\ running = {}
    /\ invoked = <<>>
    /\ model_config = "unset"
    /\ fp = "none"
    /\ disk = [p \in {} |-> NoFile]
    /\ failed = {}
    /\ error = "none"

(***************************************************************************)
(* An exception nobody catches: go() has no try block, so it ends there.   *)
(***************************************************************************)
Raise(e) ==
    /\ error' = e
    /\ pc' = "raised"

\* a variant of Returned: mlflow.run(..., synchronous=False) returns at once
ReturnedNoWait == TRUE

\* the statement after a mlflow.run call executes once the call has returned
Returned == running = {}

\* line 14
SetWandbProject ==
    /\ pc = "project"
    /\ IF Has("main", "project_name")
       THEN /\ environ' = [environ EXCEPT !.WANDB_PROJECT = config.main.project_name]
            /\ pc' = "run_group"
            /\ UNCHANGED error
       ELSE /\ Raise("KeyError")
            /\ UNCHANGED environ
    /\ UNCHANGED <<names, form, config, root_path, steps_to_execute, running, invoked,
                   model_config, fp, disk, failed>>

\* a variant of SetWandbRunGroup: the second assignment names WANDB_PROJECT again
SetWandbRunGroupOverwritesProject ==
    /\ pc = "run_group"
    /\ IF Has("main", "experiment_name")
       THEN /\ environ' = [environ EXCEPT !.WANDB_PROJECT = config.main.experiment_name]
            /\ pc' = "resolve"
            /\ UNCHANGED error
       ELSE /\ Raise("KeyError")
            /\ UNCHANGED environ
    /\ UNCHANGED <<names, form, config, root_path, steps_to_execute, running, invoked,
                   model_config, fp, disk, failed>>

\* line 17
SetWandbRunGroup ==
    /\ pc = "run_group"
    /\ IF Has("main", "experiment_name")
       THEN /\ environ' = [environ EXCEPT !.WANDB_RUN_GROUP = config.main.experiment_name]
            /\ pc' = "resolve"
            /\ UNCHANGED error
       ELSE /\ Raise("KeyError")
            /\ UNCHANGED environ
    /\ UNCHANGED <<names, form, config, root_path, steps_to_execute, running, invoked,
                   model_config, fp, disk, failed>>

\* lines 25-29
Resolve(v) == IF v.type = "str" THEN Split(v.value) ELSE v.value

\* lines 20-29
ResolveSteps ==
    /\ pc = "resolve"
    /\ root_path' = OriginalCwd
    /\ steps_to_execute' = Resolve(config.main.execute_steps)
    /\ pc' = "download"
    /\ UNCHANGED <<names, form, config, environ, running, invoked, model_config, fp,
                   disk, failed, error>>

\* a variant of Selected: the name occurs somewhere inside an element
SelectedContains(name) ==
    \E i \in 1..Len(steps_to_execute) :
        \E j \in 1..Len(steps_to_execute[i]) : steps_to_execute[i][j] = name

\* "<name>" in steps_to_execute
Selected(name) == \E i \in 1..Len(steps_to_execute) : steps_to_execute[i] = <<name>>

\* os.path.join and os.path.abspath
PathJoin(a, b) == a \o "/" \o b
AbsPath(file) == PathJoin(Cwd, file)

\* mlflow.run(uri, entry_point, parameters=...) is entered
Call(name, parameters) ==
    /\ invoked' = Append(invoked, [uri |-> PathJoin(root_path, name),
                                   entry_point |-> "main",
                                   parameters |-> parameters])
    /\ running' = running \cup {name}

\* a variant of ExecutorFailed: the call sits in a try block that logs and goes on
ExecutorFailedIgnored == UNCHANGED <<pc, error>>

\* an mlflow.run call raised: nothing in go() catches it
ExecutorFailed == Raise("ExecutionException")

\* a blocking mlflow.run call ends: it returns, or it raises
ExecutorReturn ==
    /\ pc # "raised"
    /\ \E s \in running :
          /\ running' = running \ {s}
          /\ \/ UNCHANGED <<pc, error, failed>>
             \/ /\ failed' = failed \cup {s}
                /\ ExecutorFailed
    /\ UNCHANGED <<names, form, config, environ, root_path, steps_to_execute, invoked,
                   model_config, fp, disk>>

\* one `if "<name>" in steps_to_execute: _ = mlflow.run(...)` block
RunStage(name, next, readable, parameters) ==
    /\ pc = name
    /\ Returned
    /\ IF Selected(name)
       THEN IF readable
            THEN /\ Call(name, parameters)
                 /\ pc' = next
                 /\ UNCHANGED error
            ELSE /\ Raise("KeyError")
                 /\ UNCHANGED <<running, invoked>>
       ELSE /\ pc' = next
            /\ UNCHANGED <<running, invoked, error>>
    /\ UNCHANGED <<names, form, config, environ, root_path, steps_to_execute,
                   model_config, fp, disk, failed>>

\* lines 36-43
DownloadParameters ==
    [file_url |-> config.data.file_url,
     artifact_name |-> "raw_data.parquet",
     artifact_type |-> "raw_data",
     artifact_description |-> "Data as downloaded"]

\* lines 32-44
Download ==
    RunStage("download", "preprocess", Has("data", "file_url"), DownloadParameters)

\* lines 51-61
PreprocessParameters ==
    [input_artifact |-> "raw_data.parquet:latest",
     artifact_name |-> "preprocessed_data.csv",
     artifact_type |-> "preprocessed_data",
     artifact_description |-> "Data with preprocessing applied"]

\* lines 47-62
Preprocess ==
    RunStage("preprocess", "check_data", TRUE, PreprocessParameters)

\* lines 70-81
CheckDataParameters ==
    [sample_artifact |-> "preprocessed_data.csv:latest",
     reference_artifact |-> config.data.reference_dataset,
     ks_alpha |-> config.data.ks_alpha]

\* a variant of CheckData: the keys are read with .get(), a missing one gives None
CheckDataLenient ==
    RunStage("check_data", "segregate", TRUE,
             [sample_artifact |-> "preprocessed_data.csv:latest",
              reference_artifact |-> IF Has("data", "reference_dataset")
                                     THEN config.data.reference_dataset ELSE "None",
              ks_alpha |-> IF Has("data", "ks_alpha") THEN config.data.ks_alpha ELSE "None"])

\* lines 66-82
CheckData ==
    RunStage("check_data", "segregate",
             HasAll("data", {"reference_dataset", "ks_alpha"}), CheckDataParameters)

\* lines 91-102
SegregateParameters ==
    [input_artifact |-> "preprocessed_data.csv:latest",
     test_size |-> config.data.test_size,
     stratify |-> config.data.stratify,
     artifact_root |-> "data",
     artifact_type |-> "segregated_data"]

\* lines 87-103
Segregate ==
    RunStage("segregate", "random_forest",
             HasAll("data", {"test_size", "stratify"}), SegregateParameters)

\* OmegaConf.to_yaml of a mapping of scalars: one "key: value" line per key present
YamlLine(tree, key) ==
    IF key \in DOMAIN tree THEN key \o ": " \o tree[key] \o "\n" ELSE ""

ToYaml(tree) == YamlLine(tree, "export_artifact") \o YamlLine(tree, "random_forest")

\* the name given to os.path.abspath, line 111
ModelConfigFile == "random_forest_config.yml"

\* what a reader may find in a file whose writer has not flushed
Unflushed == {[state |-> "empty", text |-> ""], [state |-> "partial", text |-> ""]}

\* a variant of WriteFailed: the with block sits in a try block that goes on to the run
WriteFailedIgnored ==
    /\ pc' = "rf_run"
    /\ UNCHANGED error

\* an open, write or close raised OSError: nothing in go() catches it
WriteFailed == Raise("OSError")

\* lines 109-113: the membership test, the path, and open(model_config, "w+")
RandomForestOpen ==
    /\ pc = "random_forest"
    /\ Returned
    /\ IF Selected("random_forest")
       THEN /\ model_config' = AbsPath(ModelConfigFile)
            /\ \/ /\ fp' = "open"
                  /\ disk' = (model_config' :> [state |-> "empty", text |-> ""]) @@ disk
                  /\ pc' = "rf_write"
                  /\ UNCHANGED error
               \/ /\ fp' = "error"
                  /\ WriteFailed
                  /\ UNCHANGED disk
       ELSE /\ pc' = "evaluate"
            /\ UNCHANGED <<model_config, fp, disk, error>>
    /\ UNCHANGED <<names, form, config, environ, root_path, steps_to_execute, running,
                   invoked, failed>>

\* a variant of AfterWrite: mlflow.run is called inside the with block
AfterWriteInsideBlock == "rf_run"

\* the statement that follows fp.write inside the with block: leaving the block
AfterWrite == "rf_close"

\* line 114: the sub-tree is read, serialized and written to the file object
RandomForestWrite ==
    /\ pc = "rf_write"
    /\ IF "random_forest_pipeline" \in DOMAIN config
       THEN \/ /\ fp' = "written"
               /\ \E seen \in Unflushed : disk' = [disk EXCEPT ![model_config] = seen]
               /\ pc' = AfterWrite
               /\ UNCHANGED error
            \/ /\ fp' = "error"
               /\ \E seen \in Unflushed : disk' = [disk EXCEPT ![model_config] = seen]
               /\ WriteFailed
       ELSE /\ fp' = "closed"
            /\ Raise("KeyError")
            /\ UNCHANGED disk
    /\ UNCHANGED <<names, form, config, environ, root_path, steps_to_execute, running,
                   invoked, model_config, failed>>

\* the end of the with block, lines 113-114: the file object is flushed and closed
RandomForestClose ==
    /\ pc = "rf_close"
    /\ \/ /\ fp' = "closed"
          /\ disk' = [disk EXCEPT ![model_config] =
                        [state |-> "complete", text |-> ToYaml(config.random_forest_pipeline)]]
          /\ pc' = "rf_run"
          /\ UNCHANGED error
       \/ /\ fp' = "error"
          /\ \E seen \in Unflushed : disk' = [disk EXCEPT ![model_config] = seen]
          /\ WriteFailed
    /\ UNCHANGED <<names, form, config, environ, root_path, steps_to_execute, running,
                   invoked, model_config, failed>>

\* lines 120-130
RandomForestParameters ==
    [train_data |-> "data_train.csv:latest",
     model_config |-> model_config,
     random_seed |-> config.main.random_seed,
     val_size |-> config.data.test_size,
     stratify |-> config.data.stratify,
     export_artifact |-> config.random_forest_pipeline.export_artifact]

\* lines 117-131
RandomForest ==
    /\ pc = "rf_run"
    /\ IF /\ Has("main", "random_seed")
          /\ HasAll("data", {"test_size", "stratify"})
          /\ Has("random_forest_pipeline", "export_artifact")
       THEN /\ Call("random_forest", RandomForestParameters)
            /\ pc' = "evaluate"
            /\ UNCHANGED error
       ELSE /\ Raise("KeyError")
            /\ UNCHANGED <<running, invoked>>
    /\ UNCHANGED <<names, form, config, environ, root_path, steps_to_execute,
                   model_config, fp, disk, failed>>

\* a variant of EvaluateParameters: the export name without its version tag
EvaluateParametersNoVersion ==
    [model_export |-> config.random_forest_pipeline.export_artifact,
     test_data |-> "data_test.csv:latest"]

\* lines 139-145
EvaluateParameters ==
    [model_export |-> config.random_forest_pipeline.export_artifact \o ":latest",
     test_data |-> "data_test.csv:latest"]

\* a variant of Evaluate: the block tests a name that no selection holds
EvaluateWrongName ==
    /\ pc = "evaluate"
    /\ Returned
    /\ pc' = "end"
    /\ UNCHANGED <<names, form, config, environ, root_path, steps_to_execute, running,
                   invoked, model_config, fp, disk, failed, error>>

\* lines 135-146
Evaluate ==
    RunStage("evaluate", "end",
             Has("random_forest_pipeline", "export_artifact"), EvaluateParameters)

\* go() returns to its caller after the last block
Return ==
    /\ pc = "end"
    /\ Returned
    /\ pc' = "done"
    /\ UNCHANGED <<names, form, config, environ, root_path, steps_to_execute, running,
                   invoked, model_config, fp, disk, failed, error>>

Next ==
    \/ SetWandbProject
    \/ SetWandbRunGroup
    \/ ResolveSteps
    \/ Download
    \/ Preprocess
    \/ CheckData
    \/ Segregate
    \/ RandomForestOpen
    \/ RandomForestWrite
    \/ RandomForestClose
    \/ RandomForest
    \/ Evaluate
    \/ ExecutorReturn
    \/ Return

Spec == Init /\ [][Next]_vars

(***************************************************************************)
(* Vocabulary of the properties.                                           *)
(***************************************************************************)
\* the stage a call runs: the one whose project folder it names
StageOf(call) == CHOOSE n \in Stages : call.uri = OriginalCwd \o "/" \o n

InvokedStages == [i \in 1..Len(invoked) |-> StageOf(invoked[i])]

\* the text "n" is an element of the list l
Member(n, l) == \E i \in 1..Len(l) : l[i] = <<n>>

\* the canonical order restricted to the stages named in the list l
Restricted(l) == SelectSeq(StageNames, LAMBDA n : Member(n, l))

IsPrefix(a, b) == Len(a) <= Len(b) /\ a = SubSeq(b, 1, Len(a))

\* lines 25-29 have executed
Resolved == root_path # "unset"

\* the list of names as a sequence of texts
Verbatim(l) == [i \in 1..Len(l) |-> <<l[i]>>]

(***************************************************************************)
(* C1: the calls made are, in order, the canonical sequence restricted to  *)
(* the stages whose name is an element of the resolved selection: at every *)
(* moment a prefix of it (no unselected stage, none twice, none out of     *)
(* order, unknown names inert), and all of it when go() returns normally.  *)
(***************************************************************************)
C1_SelectedStagesInOrder ==
    /\ IsPrefix(InvokedStages, Restricted(steps_to_execute))
    /\ pc = "done" => InvokedStages = Restricted(steps_to_execute)

C1_Witness ==
    /\ pc = "done"
    /\ steps_to_execute = <<<<"segregate">>, <<"random_forest">>>>
    /\ InvokedStages = <<"segregate", "random_forest">>
    /\ failed = {}

(***************************************************************************)
(* C2: once the executor has signalled failure for a stage, go() has ended *)
(* with that failure, the failed stage is the last one invoked and was     *)
(* invoked once: nothing is retried and no later stage is attempted.       *)
(***************************************************************************)
C2_FailFast ==
    \A s \in failed :
        /\ pc = "raised"
        /\ error = "ExecutionException"
        /\ InvokedStages[Len(invoked)] = s
        /\ Cardinality({i \in 1..Len(invoked) : InvokedStages[i] = s}) = 1
        /\ running = {}

C2_Witness ==
    /\ failed = {"check_data"}
    /\ Restricted(steps_to_execute) = StageNames
    /\ InvokedStages = <<"download", "preprocess", "check_data">>
    /\ pc = "raised"

(***************************************************************************)
(* C3: at most one stage invocation is in progress, and it is the one      *)
(* started last.                                                           *)
(***************************************************************************)
C3_OneStageAtATime ==
    /\ Cardinality(running) <= 1
    /\ \A s \in running : InvokedStages[Len(invoked)] = s

C3_Witness ==
    /\ running = {"preprocess"}
    /\ InvokedStages = <<"download", "preprocess">>

(***************************************************************************)
(* C4 as stated: a comma-separated string of one or more names, with or    *)
(* without blanks after the commas, resolves to the same ordered list, and *)
(* selects the same stages, as the sequence of the names.                  *)
(***************************************************************************)
C4_StringEqualsSequence ==
    (Resolved /\ form \in {"commas", "commas_blanks"} /\ names # <<>>) =>
        /\ steps_to_execute = Verbatim(names)
        /\ Restricted(steps_to_execute) = Restricted(Verbatim(names))

(***************************************************************************)
(* C4 amended: the string is split on commas and the pieces are not        *)
(* trimmed.  A non-empty list of names joined by bare commas resolves to   *)
(* the same ordered list as the sequence; written with a blank after each  *)
(* comma, every piece but the first keeps its leading blank, so only the   *)
(* first name can select a stage; the empty string resolves to one empty   *)
(* piece; a sequence is used verbatim.                                     *)
(***************************************************************************)
C4_SplitWithoutTrim ==
    Resolved =>
        /\ form = "sequence" => steps_to_execute = Verbatim(names)
        /\ (form = "commas" /\ names # <<>>) => steps_to_execute = Verbatim(names)
        /\ (form \in {"commas", "commas_blanks"} /\ names = <<>>) =>
               steps_to_execute = <<<<>>>>
        /\ (form = "commas_blanks" /\ names # <<>>) =>
               /\ steps_to_execute =
                     [i \in 1..Len(names) |->
                         IF i = 1 THEN <<names[i]>> ELSE <<Blank, names[i]>>]
               /\ Restricted(steps_to_execute) = Restricted(<<<<names[1]>>>>)

C4_Witness ==
    /\ pc = "done"
    /\ form = "commas_blanks"
    /\ names = <<"download", "preprocess">>
    /\ steps_to_execute = <<<<"download">>, <<Blank, "preprocess">>>>
    /\ InvokedStages = <<"download">>

C6_ParametersMatchTable ==
    \A i \in 1..Len(invoked) :
        LET call == invoked[i]
            stage == InvokedStages[i]
            p == call.parameters
        IN  /\ call.uri = OriginalCwd \o "/" \o stage
            /\ call.entry_point = "main"
            /\ stage = "download" =>
                  /\ p.file_url = config.data.file_url
                  /\ p.artifact_name = "raw_data.parquet"
                  /\ p.artifact_type = "raw_data"
            /\ stage = "preprocess" =>
                  /\ p.input_artifact = "raw_data.parquet:latest"
                  /\ p.artifact_name = "preprocessed_data.csv"
            /\ stage = "check_data" =>
                  /\ p.sample_artifact = "preprocessed_data.csv:latest"
                  /\ p.reference_artifact = config.data.reference_dataset
                  /\ p.ks_alpha = config.data.ks_alpha
            /\ stage = "segregate" =>
                  /\ p.input_artifact = "preprocessed_data.csv:latest"
                  /\ p.test_size = config.data.test_size
                  /\ p.stratify = config.data.stratify
                  /\ p.artifact_root = "data"
            /\ stage = "random_forest" =>
                  /\ p.train_data = "data_train.csv:latest"
                  /\ p.model_config = model_config
                  /\ p.random_seed = config.main.random_seed
                  /\ p.val_size = config.data.test_size
                  /\ p.stratify = config.data.stratify
                  /\ p.export_artifact = config.random_forest_pipeline.export_artifact
            /\ stage = "evaluate" =>
                  /\ p.model_export =
                        config.random_forest_pipeline.export_artifact \o ":latest"
                  /\ p.test_data = "data_test.csv:latest"
                  /\ \A j \in 1..Len(invoked) :
                        InvokedStages[j] = "random_forest" =>
                            p.model_export =
                                invoked[j].parameters.export_artifact \o ":latest"

C6_Witness ==
    /\ pc = "done"
    /\ InvokedStages = StageNames
    /\ invoked[1].parameters.file_url = "http://x/y.csv"
    /\ invoked[5].parameters.export_artifact = "model_export"
    /\ invoked[6].parameters.model_export = "model_export:latest"

(***************************************************************************)
(* C7: while and after the random_forest call runs, the file object is     *)
(* closed, the file named by the model_config parameter holds the complete *)
(* serialization of random_forest_pipeline, and that name is the absolute  *)
(* path of random_forest_config.yml.                                       *)
(***************************************************************************)
C7_ConfigFileCompleteBeforeRun ==
    \A i \in 1..Len(invoked) :
        InvokedStages[i] = "random_forest" =>
            LET path == invoked[i].parameters.model_config
            IN  /\ fp = "closed"
                /\ path = Cwd \o "/" \o ModelConfigFile
                /\ path \in DOMAIN disk
                /\ disk[path] = [state |-> "complete",
                                 text |-> ToYaml(config.random_forest_pipeline)]

C7_Witness ==
    /\ "random_forest" \in running
    /\ fp = "closed"
    /\ disk[model_config].state = "complete"
    /\ disk[model_config].text = "export_artifact: rf_export\nrandom_forest: n_estimators: 10\n"

(***************************************************************************)
(* C8 as stated: a run that ends with a configuration error has made no    *)
(* executor call.                                                          *)
(***************************************************************************)
C8_ConfigErrorBeforeAnyStage ==
    error = "KeyError" => invoked = <<>>

\* the keys each block reads, by stage (the table of section 6)
Lacks(stage) ==
    CASE stage = "download"      -> ~Has("data", "file_url")
      [] stage = "preprocess"    -> FALSE
      [] stage = "check_data"    -> ~HasAll("data", {"reference_dataset", "ks_alpha"})
      [] stage = "segregate"     -> ~HasAll("data", {"test_size", "stratify"})
      [] stage = "random_forest" -> \/ ~Has("random_forest_pipeline", "export_artifact")
                                    \/ ~Has("main", "random_seed")
                                    \/ ~HasAll("data", {"test_size", "stratify"})
      [] stage = "evaluate"      -> ~Has("random_forest_pipeline", "export_artifact")

LacksAtStartup == ~HasAll("main", {"project_name", "experiment_name"})

(***************************************************************************)
(* C8 amended: a missing key is fatal, but it is met only where it is      *)
(* read.  A missing main.project_name or main.experiment_name ends go()    *)
(* before any stage.  A key missing for a selected stage ends go() when    *)
(* that stage's block is reached: the selected stages before it have been  *)
(* invoked, it and the stages after it are not.  No run with a key missing *)
(* for a selected stage returns normally.                                  *)
(***************************************************************************)
C8_ConfigErrorWhereRead ==
    /\ error = "KeyError" =>
          /\ pc = "raised"
          /\ IF LacksAtStartup
             THEN invoked = <<>>
             ELSE \E k \in 1..Len(StageNames) :
                     /\ Member(StageNames[k], steps_to_execute)
                     /\ Lacks(StageNames[k])
                     /\ \A j \in 1..(k - 1) :
                           Member(StageNames[j], steps_to_execute) => ~Lacks(StageNames[j])
                     /\ InvokedStages = Restricted(
                           SelectSeq(steps_to_execute,
                                     LAMBDA x : \E j \in 1..(k - 1) : x = <<StageNames[j]>>))
    /\ pc = "done" =>
          /\ ~LacksAtStartup
          /\ \A k \in 1..Len(StageNames) :
                Member(StageNames[k], steps_to_execute) => ~Lacks(StageNames[k])

C8_Witness ==
    /\ error = "KeyError"
    /\ ~Has("data", "ks_alpha")
    /\ InvokedStages = <<"download", "preprocess">>
    /\ running = {}

(***************************************************************************)
(* C9: from the first executor call on (indeed from the resolution of the  *)
(* selection on), WANDB_PROJECT is main.project_name and WANDB_RUN_GROUP   *)
(* is main.experiment_name, and they keep those values.                    *)
(***************************************************************************)
C9_EnvironmentSetFirst ==
    (Resolved \/ invoked # <<>>) =>
        /\ environ.WANDB_PROJECT = config.main.project_name
        /\ environ.WANDB_RUN_GROUP = config.main.experiment_name

C9_Witness ==
    /\ Len(invoked) = 1
    /\ environ = [WANDB_PROJECT |-> "exercise_14", WANDB_RUN_GROUP |-> "prod"]
    /\ InvokedStages = <<"evaluate">>

(***************************************************************************)
(* C10: once writing the temporary configuration file has failed, go()     *)
(* has ended with that error and neither random_forest nor evaluate is     *)
(* ever invoked.                                                           *)
(***************************************************************************)
C10_WriteFailureIsFatal ==
    fp = "error" =>
        /\ pc = "raised"
        /\ error = "OSError"
        /\ \A i \in 1..Len(invoked) : InvokedStages[i] \notin {"random_forest", "evaluate"}
        /\ running = {}

C10_Witness ==
    /\ fp = "error"
    /\ model_config \in DOMAIN disk
    /\ disk[model_config].state = "partial"
    /\ Member("random_forest", steps_to_execute)
    /\ Member("evaluate", steps_to_execute)
    /\ InvokedStages = <<"download", "preprocess", "check_data", "segregate">>

====
